---- MODULE Spec2Model ----
(***************************************************************************)
(* Model of the lab report service: the line parser and record assembler   *)
(* of lab_processor.py (LabReportProcessor) and the request handler of     *)
(* main.py.                                                                *)
(*                                                                         *)
(* A string is a sequence of one-character strings.  The regular           *)
(* expressions of the source are evaluated as Python's re module evaluates *)
(* them: leftmost start position, every repeat greedy, backtracking one    *)
(* character at a time.                                                    *)
(***************************************************************************)
EXTENDS Integers, Sequences, FiniteSets, TLC

\* ------------------------------------------------------------------------
\* Bounds
\* ------------------------------------------------------------------------
\* longest line enumerated exhaustively over Alphabet
MaxLen == 6
\* most lines of a text given to _extract_lab_tests
MaxLines == 3
\* most requests handled in one run of the service
MaxRequests == 3

\* ------------------------------------------------------------------------
\* Character classes of the regular expressions
\* ------------------------------------------------------------------------
Letters == {"a", "b", "g", "d", "L", "K", "u", "m", "W", "B", "C", "H", "G", "l"}
Whitespace == {" ", "\t"}
Digits == {"0", "1", "2", "3", "4", "5", "6", "7", "8", "9"}
\* [A-Za-z\s\(\)]
NameCls == Letters \cup Whitespace \cup {"(", ")"}
\* [\d\.]
NumCls == Digits \cup {"."}
\* [A-Za-z\/%]
UnitCls == Letters \cup {"/", "%"}
\* \s
WsCls == Whitespace
DashCls == {"-"}

\* ( [cls]+ )  a capturing group
Grp(c) == [cls |-> c, min |-> 1, many |-> TRUE, grp |-> TRUE, eol |-> FALSE]
\* [cls]*
Star(c) == [cls |-> c, min |-> 0, many |-> TRUE, grp |-> FALSE, eol |-> FALSE]
\* one character
Lit(c) == [cls |-> c, min |-> 1, many |-> FALSE, grp |-> FALSE, eol |-> FALSE]
\* the anchor $
Eol == [cls |-> {}, min |-> 0, many |-> FALSE, grp |-> FALSE, eol |-> TRUE]

\* Pattern 1: ([A-Za-z\s\(\)]+)\s*([\d\.]+)\s*([\d\.]+)\s*-\s*([\d\.]+)\s*([A-Za-z\/%]+)
PatternA ==
  << Grp(NameCls), Star(WsCls), Grp(NumCls), Star(WsCls), Grp(NumCls),
     Star(WsCls), Lit(DashCls), Star(WsCls), Grp(NumCls), Star(WsCls),
     Grp(UnitCls) >>
\* Pattern 2: ([A-Za-z\s\(\)]+)\s*([\d\.]+)\s*([A-Za-z\/%]+)\s*([\d\.]+)\s*-\s*([\d\.]+)
PatternB ==
  << Grp(NameCls), Star(WsCls), Grp(NumCls), Star(WsCls), Grp(UnitCls),
     Star(WsCls), Grp(NumCls), Star(WsCls), Lit(DashCls), Star(WsCls),
     Grp(NumCls) >>
\* Pattern 3: ([A-Za-z\s\(\)]+)\s*([\d\.]+)\s*([\d\.]+)\s*-\s*([\d\.]+)
PatternC ==
  << Grp(NameCls), Star(WsCls), Grp(NumCls), Star(WsCls), Grp(NumCls),
     Star(WsCls), Lit(DashCls), Star(WsCls), Grp(NumCls) >>
patterns == << PatternA, PatternB, PatternC >>
\* ([A-Za-z\/%]+)$
UnitPattern == << Grp(UnitCls), Eol >>

\* pattern items that are capturing groups, in group order
GroupItems(pat) == SelectSeq([i \in 1..Len(pat) |-> i], LAMBDA i : pat[i].grp)

\* ------------------------------------------------------------------------
\* re.search
\* ------------------------------------------------------------------------
NoMatch == [ok |-> FALSE, start |-> 0, lens |-> <<>>]

Min(a, b) == IF a < b THEN a ELSE b

RECURSIVE Run(_, _, _)
\* number of consecutive characters of cls in line after position pos
Run(cls, line, pos) ==
  IF pos < Len(line) /\ line[pos + 1] \in cls
    THEN 1 + Run(cls, line, pos + 1)
    ELSE 0

RECURSIVE MatchFrom(_, _, _, _)
RECURSIVE TryLen(_, _, _, _, _)
\* match items k.. of pat at position pos: the lengths the items consume
MatchFrom(pat, k, line, pos) ==
  IF k > Len(pat) THEN [ok |-> TRUE, start |-> 0, lens |-> <<>>]
  ELSE IF pat[k].eol
    THEN IF pos = Len(line)
           THEN LET rest == MatchFrom(pat, k + 1, line, pos)
                IN  [rest EXCEPT !.lens = <<0>> \o @]
           ELSE NoMatch
    ELSE LET run == Run(pat[k].cls, line, pos)
         IN  TryLen(pat, k, line, pos, IF pat[k].many THEN run ELSE Min(run, 1))
\* greedy repeat: the longest run first, then one character less
TryLen(pat, k, line, pos, n) ==
  IF n < pat[k].min THEN NoMatch
  ELSE LET rest == MatchFrom(pat, k + 1, line, pos + n)
       IN  IF rest.ok
             THEN [ok |-> TRUE, start |-> 0, lens |-> <<n>> \o rest.lens]
             ELSE TryLen(pat, k, line, pos, n - 1)

RECURSIVE SearchFrom(_, _, _)
SearchFrom(pat, line, s) ==
  IF s > Len(line) THEN NoMatch
  ELSE LET m == MatchFrom(pat, 1, line, s)
       IN  IF m.ok THEN [m EXCEPT !.start = s]
           ELSE SearchFrom(pat, line, s + 1)

\* re.search(pattern, line)
Search(pat, line) == SearchFrom(pat, line, 0)

RECURSIVE SumTo(_, _)
SumTo(lens, k) == IF k = 0 THEN 0 ELSE lens[k] + SumTo(lens, k - 1)

\* match.group(g)
Group(pat, line, m, g) ==
  LET k == GroupItems(pat)[g]
      from == m.start + SumTo(m.lens, k - 1)
  IN  SubSeq(line, from + 1, from + m.lens[k])

\* ------------------------------------------------------------------------
\* str.strip, float, str(float)
\* ------------------------------------------------------------------------
RECURSIVE LStrip(_)
LStrip(s) == IF s # <<>> /\ Head(s) \in Whitespace THEN LStrip(Tail(s)) ELSE s
RECURSIVE RStrip(_)
RStrip(s) == IF s # <<>> /\ s[Len(s)] \in Whitespace
               THEN RStrip(SubSeq(s, 1, Len(s) - 1)) ELSE s
\* str.strip()
Strip(s) == LStrip(RStrip(s))

DigitVal(c) ==
  CASE c = "0" -> 0 [] c = "1" -> 1 [] c = "2" -> 2 [] c = "3" -> 3
    [] c = "4" -> 4 [] c = "5" -> 5 [] c = "6" -> 6 [] c = "7" -> 7
    [] c = "8" -> 8 [] c = "9" -> 9
DigitChar(n) == <<"0", "1", "2", "3", "4", "5", "6", "7", "8", "9">>[n + 1]

Count(s, c) == Cardinality({i \in 1..Len(s) : s[i] = c})

\* float(s) succeeds on a string of digits and dots: at most one dot and at
\* least one digit; otherwise float raises ValueError
IsFloat(s) == Count(s, ".") <= 1 /\ Len(s) - Count(s, ".") >= 1

RECURSIVE DigitsVal(_)
DigitsVal(s) == IF s = <<>> THEN 0
                ELSE 10 * DigitsVal(SubSeq(s, 1, Len(s) - 1)) + DigitVal(s[Len(s)])
RECURSIVE Pow10(_)
Pow10(n) == IF n = 0 THEN 1 ELSE 10 * Pow10(n - 1)

\* float(s): the number m / 10^e
Float(s) ==
  LET dot == IF Count(s, ".") = 0 THEN Len(s) + 1
             ELSE CHOOSE i \in 1..Len(s) : s[i] = "."
      ds == SelectSeq(s, LAMBDA c : c # ".")
  IN  [m |-> DigitsVal(ds), e |-> IF dot > Len(s) THEN 0 ELSE Len(s) - dot]

\* a <= b on floats
FloatLe(a, b) == a.m * Pow10(b.e) <= b.m * Pow10(a.e)
\* a < b on floats
FloatLt(a, b) == a.m * Pow10(b.e) < b.m * Pow10(a.e)

RECURSIVE NatStr(_)
NatStr(n) == IF n < 10 THEN <<DigitChar(n)>>
             ELSE NatStr(n \div 10) \o <<DigitChar(n % 10)>>
RECURSIVE PadStr(_, _)
\* the number m written with exactly e digits
PadStr(m, e) == IF e = 0 THEN <<>>
                ELSE PadStr(m \div 10, e - 1) \o <<DigitChar(m % 10)>>
RECURSIVE Reduce(_)
\* the same number without trailing zeros in its fraction
Reduce(x) == IF x.e > 0 /\ x.m % 10 = 0
               THEN Reduce([m |-> x.m \div 10, e |-> x.e - 1]) ELSE x
\* str(x) of a float: shortest repr, always with a fractional part
\* (the positional form Python uses for 1e-4 <= x < 1e16 and x = 0)
FloatStr(x) ==
  LET r == Reduce(x)
      ip == r.m \div Pow10(r.e)
      fp == r.m % Pow10(r.e)
  IN  NatStr(ip) \o <<".">> \o (IF r.e = 0 THEN <<"0">> ELSE PadStr(fp, r.e))

\* ------------------------------------------------------------------------
\* LabReportProcessor._parse_test_line
\* ------------------------------------------------------------------------
\* variant: the bounds themselves count as out of range
OutOfRangeStrict(value, ref_min, ref_max) ==
  ~(FloatLt(ref_min, value) /\ FloatLt(value, ref_max))

\* not (ref_min <= value <= ref_max)
OutOfRange(value, ref_min, ref_max) ==
  ~(FloatLe(ref_min, value) /\ FloatLe(value, ref_max))

\* the dictionary returned for a match
TestRecord(test_name, value, ref_min, ref_max, unit) ==
  [ test_name |-> test_name,
    test_value |-> FloatStr(value),
    bio_reference_range |-> FloatStr(ref_min) \o <<"-">> \o FloatStr(ref_max),
    test_unit |-> unit,
    lab_test_out_of_range |-> OutOfRange(value, ref_min, ref_max) ]

\* the body of "if match:" for pattern number i: <<record>>, or <<>> when a
\* float() raises ValueError
FromMatch(i, line, m) ==
  LET pat == patterns[i]
      g(n) == Group(pat, line, m, n)
      five == Len(GroupItems(pat)) = 5
      vs == g(2)
      mins == IF five /\ i # 1 THEN g(4) ELSE g(3)
      maxs == IF five /\ i # 1 THEN g(5) ELSE g(4)
      unit == IF five THEN Strip(IF i = 1 THEN g(5) ELSE g(3)) ELSE <<>>
  IN  IF IsFloat(vs) /\ IsFloat(mins) /\ IsFloat(maxs)
        THEN << TestRecord(Strip(g(1)), Float(vs), Float(mins), Float(maxs), unit) >>
        ELSE <<>>

RECURSIVE ParseFromNoFallThrough(_, _)
\* variant: a ValueError in the first matching pattern ends the loop
ParseFromNoFallThrough(line, i) ==
  IF i > Len(patterns) THEN <<>>
  ELSE LET m == Search(patterns[i], line)
       IN  IF m.ok THEN FromMatch(i, line, m)
           ELSE ParseFromNoFallThrough(line, i + 1)

RECURSIVE ParseFrom(_, _)
\* the loop "for pattern in patterns", from pattern number i on
ParseFrom(line, i) ==
  IF i > Len(patterns) THEN <<>>
  ELSE LET m == Search(patterns[i], line)
           r == FromMatch(i, line, m)
       IN  IF m.ok /\ r # <<>> THEN r ELSE ParseFrom(line, i + 1)

\* _parse_test_line(line): <<record>>, or <<>> for None
ParseTestLine(line) == ParseFrom(line, 1)

\* ------------------------------------------------------------------------
\* LabReportProcessor._update_test_info
\* ------------------------------------------------------------------------
\* variant: the unit is written whether or not one is present
UpdateTestInfoOverwrite(test, line) ==
  LET unit_match == Search(UnitPattern, line)
  IN  IF unit_match.ok
        THEN [test EXCEPT !.test_unit = Strip(Group(UnitPattern, line, unit_match, 1))]
        ELSE test

\* _update_test_info(test, line): the dictionary after the call
UpdateTestInfo(test, line) ==
  IF test.test_unit = <<>>
    THEN LET unit_match == Search(UnitPattern, line)
         IN  IF unit_match.ok
               THEN [test EXCEPT !.test_unit = Strip(Group(UnitPattern, line, unit_match, 1))]
               ELSE test
    ELSE test

\* ------------------------------------------------------------------------
\* LabReportProcessor._extract_lab_tests
\* ------------------------------------------------------------------------
RECURSIVE SplitFrom(_, _)
\* the pieces of text between newlines, the piece in progress first
SplitFrom(text, piece) ==
  IF text = <<>> THEN <<piece>>
  ELSE IF Head(text) = "\n" THEN <<piece>> \o SplitFrom(Tail(text), <<>>)
  ELSE SplitFrom(Tail(text), Append(piece, Head(text)))
\* text.split('\n')
SplitLines(text) == SplitFrom(text, <<>>)

\* variant: a blank line closes the open record
LoopBodyBlankSeals(cur, out, ln) ==
  IF Strip(ln) = <<>>
    THEN [current_test |-> <<>>,
          lab_tests |-> IF cur # <<>> THEN Append(out, cur[1]) ELSE out]
    ELSE LET info == ParseTestLine(ln)
         IN  IF info # <<>>
               THEN [current_test |-> info,
                     lab_tests |-> IF cur # <<>> THEN Append(out, cur[1]) ELSE out]
               ELSE IF cur # <<>>
                 THEN [current_test |-> <<UpdateTestInfo(cur[1], ln)>>,
                       lab_tests |-> out]
                 ELSE [current_test |-> cur, lab_tests |-> out]

\* variant: a continuation line is stored as the name of the open record
LoopBodyRenames(cur, out, ln) ==
  IF Strip(ln) = <<>>
    THEN [current_test |-> cur, lab_tests |-> out]
    ELSE LET info == ParseTestLine(ln)
         IN  IF info # <<>>
               THEN [current_test |-> info,
                     lab_tests |-> IF cur # <<>> THEN Append(out, cur[1]) ELSE out]
               ELSE IF cur # <<>>
                 THEN [current_test |-> <<[cur[1] EXCEPT !.test_name = Strip(ln)]>>,
                       lab_tests |-> out]
                 ELSE [current_test |-> cur, lab_tests |-> out]

\* variant: a record is appended to the list as soon as it is parsed
LoopBodySealsEarly(cur, out, ln) ==
  IF Strip(ln) = <<>>
    THEN [current_test |-> cur, lab_tests |-> out]
    ELSE LET info == ParseTestLine(ln)
         IN  IF info # <<>>
               THEN [current_test |-> info, lab_tests |-> Append(out, info[1])]
               ELSE IF cur # <<>>
                 THEN [current_test |-> <<UpdateTestInfo(cur[1], ln)>>,
                       lab_tests |-> out]
                 ELSE [current_test |-> cur, lab_tests |-> out]

\* one iteration of "for line in lines": current_test and lab_tests after it
LoopBody(cur, out, ln) ==
  IF Strip(ln) = <<>>
    THEN [current_test |-> cur, lab_tests |-> out]
    ELSE LET info == ParseTestLine(ln)
         IN  IF info # <<>>
               THEN [current_test |-> info,
                     lab_tests |-> IF cur # <<>> THEN Append(out, cur[1]) ELSE out]
               ELSE IF cur # <<>>
                 THEN [current_test |-> <<UpdateTestInfo(cur[1], ln)>>,
                       lab_tests |-> out]
                 ELSE [current_test |-> cur, lab_tests |-> out]

\* variant: the open record is not appended at the end
FlushNothing(cur, out) == out

\* "if current_test: lab_tests.append(current_test)" after the loop
Flush(cur, out) == IF cur # <<>> THEN Append(out, cur[1]) ELSE out

RECURSIVE LoopFrom(_, _, _, _)
LoopFrom(ls, k, cur, out) ==
  IF k > Len(ls) THEN Flush(cur, out)
  ELSE LET s == LoopBody(cur, out, ls[k])
       IN  LoopFrom(ls, k + 1, s.current_test, s.lab_tests)
\* _extract_lab_tests(text) as a function of the text
ExtractLabTests(text) == LoopFrom(SplitLines(text), 1, <<>>, <<>>)

\* ------------------------------------------------------------------------
\* Inputs
\* ------------------------------------------------------------------------
\* "Hb 13.5 12.0 - 16.0 g/dL"  (name, value, range, unit)
LineA == <<"H", "b", " ", "1", "3", ".", "5", " ", "1", "2", ".", "0", " ", "-", " ", "1", "6", ".", "0", " ", "g", "/", "d", "L">>
\* "Glu 180 mg/dL 70 - 99"  (name, value, unit, range)
LineB == <<"G", "l", "u", " ", "1", "8", "0", " ", "m", "g", "/", "d", "L", " ", "7", "0", " ", "-", " ", "9", "9">>
\* "WBC 11.2 4.0 - 11.0"  (name, value, range)
LineC == <<"W", "B", "C", " ", "1", "1", ".", "2", " ", "4", ".", "0", " ", "-", " ", "1", "1", ".", "0">>
\* "K/uL"
LineUnit == <<"K", "/", "u", "L">>
\* "mg %"
LineUnit2 == <<"m", "g", " ", "%">>
\* "# 12"
LineNote == <<"#", " ", "1", "2">>
\* "a12-3#a.1-2m": pattern 1 matches "a.1-2m" with value ".", pattern 3 "a12-3"
FallAC == <<"a", "1", "2", "-", "3", "#", "a", ".", "1", "-", "2", "m">>
\* "a1.. 2-3m a1m2-3": pattern 1 matches with value "1..", pattern 2 "m a1m2-3"
FallAB == <<"a", "1", ".", ".", " ", "2", "-", "3", "m", " ", "a", "1", "m", "2", "-", "3">>
\* "Hb 1.2.3 4 - 5 mg": patterns 1 and 3 match with value "1.2.3"
FallNone == <<"H", "b", " ", "1", ".", "2", ".", "3", " ", "4", " ", "-", " ", "5", " ", "m", "g">>
\* "#0Hb 07 7.0-7.50%"
LinePrefix == <<"#", "0", "H", "b", " ", "0", "7", " ", "7", ".", "0", "-", "7", ".", "5", "0", "%">>

BlankLines == {<<>>, <<" ">>}
SampleLines == BlankLines \cup {LineA, LineB, LineC, LineUnit, LineUnit2, LineNote}

Alphabet == {"a", " ", "1", "2", ".", "-"}
\* every string over Alphabet of at most MaxLen characters, and the samples
ParserLines ==
  UNION {[1..n -> Alphabet] : n \in 0..MaxLen}
    \cup SampleLines \cup {FallAC, FallAB, FallNone, LinePrefix}

RECURSIVE Join(_)
\* "\n".join(ls)
Join(ls) == IF ls = <<>> THEN <<>>
            ELSE IF Len(ls) = 1 THEN ls[1]
            ELSE ls[1] \o <<"\n">> \o Join(Tail(ls))
\* every text of at most MaxLines lines drawn from SampleLines
Texts == {Join(ls) : ls \in UNION {[1..n -> SampleLines] : n \in 1..MaxLines}}

\* ------------------------------------------------------------------------
\* State
\* ------------------------------------------------------------------------
VARIABLES
  text,          \* argument of _extract_lab_tests
  lines,         \* text.split('\n')
  idx,           \* position of the loop "for line in lines" (next line)
  current_test,  \* <<>> for None, else <<record>>
  lab_tests,     \* the output list
  pc,            \* "idle", "split", "loop", "done"
  line,          \* argument of a call of _parse_test_line
  parsed,        \* its return value: <<>> for None, else <<record>>
  ppc,           \* "idle", "call", "return"
  engine,        \* the OCR engine: "unused", "available", "unavailable"
  phase,         \* main.py: "off", "starting", "serving", "failed"
  requests       \* what each POST /get-lab-tests so far did

vars == <<text, lines, idx, current_test, lab_tests, pc, line, parsed, ppc,
          engine, phase, requests>>
serviceVars == <<engine, phase, requests>>
extractVars == <<text, lines, idx, current_test, lab_tests, pc>>
parseVars == <<line, parsed, ppc>>

ExtractIdle ==
  /\ text = <<>> /\ lines = <<>> /\ idx = 0
  /\ current_test = <<>> /\ lab_tests = <<>> /\ pc = "idle"
ParseIdle == line = <<>> /\ parsed = <<>> /\ ppc = "idle"
ServiceIdle == engine = "unused" /\ phase = "off" /\ requests = <<>>

\* ------------------------------------------------------------------------
\* _extract_lab_tests, one step per statement of the loop
\* ------------------------------------------------------------------------
Init ==
  /\ text \in Texts
  /\ lines = <<>> /\ idx = 0
  /\ current_test = <<>> /\ lab_tests = <<>> /\ pc = "split"
  /\ ParseIdle
  /\ ServiceIdle

\* lines = text.split('\n'); lab_tests = []; current_test = None
Split ==
  /\ pc = "split"
  /\ lines' = SplitLines(text)
  /\ idx' = 1
  /\ lab_tests' = <<>>
  /\ current_test' = <<>>
  /\ pc' = "loop"
  /\ UNCHANGED <<text, parseVars, serviceVars>>

\* one iteration of the loop
ProcessLine ==
  /\ pc = "loop"
  /\ idx <= Len(lines)
  /\ LET s == LoopBody(current_test, lab_tests, lines[idx])
     IN  /\ current_test' = s.current_test
         /\ lab_tests' = s.lab_tests
  /\ idx' = idx + 1
  /\ UNCHANGED <<text, lines, pc, parseVars, serviceVars>>

\* end of the loop: flush the open record and return lab_tests
Return ==
  /\ pc = "loop"
  /\ idx > Len(lines)
  /\ lab_tests' = Flush(current_test, lab_tests)
  /\ pc' = "done"
  /\ UNCHANGED <<text, lines, idx, current_test, parseVars, serviceVars>>

Next == Split \/ ProcessLine \/ Return
Spec == Init /\ [][Next]_vars

\* ------------------------------------------------------------------------
\* _parse_test_line called on one line
\* ------------------------------------------------------------------------
InitParse ==
  /\ ExtractIdle
  /\ ServiceIdle
  /\ line \in ParserLines
  /\ parsed = <<>>
  /\ ppc = "call"

ParseLine ==
  /\ ppc = "call"
  /\ parsed' = ParseTestLine(line)
  /\ ppc' = "return"
  /\ UNCHANGED <<line, extractVars, serviceVars>>

NextParse == ParseLine
SpecParse == InitParse /\ [][NextParse]_vars

\* ------------------------------------------------------------------------
\* main.py and LabReportProcessor.process_report
\* ------------------------------------------------------------------------
\* the calls a request makes, in order: file.read, Image.open,
\* _preprocess_image, pytesseract.image_to_string, _extract_lab_tests
Steps == <<"read", "open", "preprocess", "ocr", "extract">>

\* the exception a failing call raises; all are subclasses of Exception
CauseOf(step) ==
  CASE step = "read" -> [kind |-> "OSError", msg |-> <<"read failed">>]
    [] step = "open" -> [kind |-> "UnidentifiedImageError",
                         msg |-> <<"cannot identify image file">>]
    [] step = "preprocess" -> [kind |-> "OSError", msg |-> <<"image file is truncated">>]
    [] step = "ocr" -> [kind |-> "TesseractError", msg |-> <<"tesseract failed">>]
    [] step = "extract" -> [kind |-> "MemoryError", msg |-> <<"">>]
ExceptionSubclasses ==
  {"Exception", "OSError", "UnidentifiedImageError", "TesseractError", "MemoryError"}
\* does "except <cls>" catch e
Catches(cls, e) == IF cls = "Exception" THEN e.kind \in ExceptionSubclasses
                   ELSE e.kind = cls

\* the texts the OCR engine returns
OcrTexts == {<<>>, LineA, Join(<<LineC, LineUnit>>)}
\* what the outside world does to a request: the first call that fails, if
\* any, and the text the OCR engine returns
Envs == [fail_at : {"none"} \cup {Steps[i] : i \in 1..Len(Steps)}, ocr_text : OcrTexts]

\* variant: the cause is re-raised with its own class
WrapErrorKeepKind(e) == [kind |-> e.kind, msg |-> <<"Error processing image: ">> \o e.msg]

\* raise Exception(f"Error processing image: {str(e)}")
WrapError(e) == [kind |-> "Exception", msg |-> <<"Error processing image: ">> \o e.msg]

\* the exception class caught by process_report
ProcessReportCatch == "Exception"

\* process_report(image_bytes): the value returned or the exception raised
ProcessReport(env) ==
  IF env.fail_at \in {"open", "preprocess", "ocr", "extract"}
    THEN LET e == CauseOf(env.fail_at)
         IN  IF Catches(ProcessReportCatch, e)
               THEN [raised |-> <<WrapError(e)>>, value |-> <<>>]
               ELSE [raised |-> <<e>>, value |-> <<>>]
    ELSE [raised |-> <<>>, value |-> ExtractLabTests(env.ocr_text)]

\* variant: the handler catches ValueError only
HandlerCatchNarrow == "ValueError"

\* the exception class caught by the handler
HandlerCatch == "Exception"

\* the except clause of process_lab_report
HandleError(e) ==
  IF Catches(HandlerCatch, e)
    THEN [outcome |-> "returned",
          response |-> <<[is_success |-> FALSE, error |-> e.msg]>>]
    ELSE [outcome |-> "propagated", response |-> <<>>]

\* process_lab_report(file): what the handler does for one request
ProcessLabReportHandler(env) ==
  IF env.fail_at = "read"
    THEN [failed_at |-> "read", called |-> FALSE, raised |-> <<>>]
           @@ HandleError(CauseOf("read"))
    ELSE LET result == ProcessReport(env)
         IN  [failed_at |-> env.fail_at, called |-> TRUE, raised |-> result.raised]
               @@ (IF result.raised = <<>>
                     THEN [outcome |-> "returned",
                           response |-> <<[is_success |-> TRUE, data |-> result.value]>>]
                     ELSE HandleError(result.raised[1]))

\* variant: the failed engine check is swallowed
LabReportProcessorInitSwallow(e) == "constructed"

\* LabReportProcessor.__init__: get_tesseract_version() raises when the
\* engine is not there, and __init__ raises in turn
LabReportProcessorInit(e) ==
  IF e = "available" THEN "constructed" ELSE "raised"

InitService ==
  /\ ExtractIdle
  /\ ParseIdle
  /\ engine \in {"available", "unavailable"}
  /\ phase = "starting"
  /\ requests = <<>>

\* import of main.py: lab_processor = LabReportProcessor() at module level
Startup ==
  /\ phase = "starting"
  /\ phase' = IF LabReportProcessorInit(engine) = "constructed"
                THEN "serving" ELSE "failed"
  /\ UNCHANGED <<engine, requests, extractVars, parseVars>>

\* POST /get-lab-tests
ProcessLabReport ==
  /\ phase = "serving"
  /\ Len(requests) < MaxRequests
  /\ \E env \in Envs : requests' = Append(requests, ProcessLabReportHandler(env))
  /\ UNCHANGED <<engine, phase, extractVars, parseVars>>

NextService == Startup \/ ProcessLabReport
SpecService == InitService /\ [][NextService]_vars

\* ------------------------------------------------------------------------
\* Properties
\* ------------------------------------------------------------------------
\* the two bounds written in bio_reference_range, "<min>-<max>"
RangeDash(r) == CHOOSE i \in 1..Len(r.bio_reference_range) : r.bio_reference_range[i] = "-"
RangeMin(r) == Float(SubSeq(r.bio_reference_range, 1, RangeDash(r) - 1))
RangeMax(r) == Float(SubSeq(r.bio_reference_range, RangeDash(r) + 1, Len(r.bio_reference_range)))

\* C1: whenever _parse_test_line returns a record, its lab_test_out_of_range
\* is true exactly when the value is below the lower bound or above the upper
\* bound of the range; a value equal to either bound is in range, also when
\* the lower bound exceeds the upper one.
C1_OutOfRangeIff ==
  (ppc = "return" /\ parsed # <<>>) =>
    LET r == parsed[1]
        v == Float(r.test_value)
    IN  r.lab_test_out_of_range <=> (FloatLt(v, RangeMin(r)) \/ FloatLt(RangeMax(r), v))

\* a record whose value equals its lower bound, flagged in range
C1_Witness ==
  /\ ppc = "return" /\ parsed # <<>>
  /\ Float(parsed[1].test_value) = RangeMin(parsed[1])
  /\ FloatLt(RangeMin(parsed[1]), RangeMax(parsed[1]))
  /\ ~parsed[1].lab_test_out_of_range

\* the numeric groups of pattern number i
NumericGroups(i) ==
  {g \in 1..Len(GroupItems(patterns[i])) : patterns[i][GroupItems(patterns[i])[g]].cls = NumCls}
\* pattern number i matches the line and all its numeric groups parse
Qualifies(i, l) ==
  LET m == Search(patterns[i], l)
  IN  m.ok /\ \A g \in NumericGroups(i) : IsFloat(Group(patterns[i], l, m, g))

\* C8: _parse_test_line returns the record of the first pattern, in the order
\* 1, 2, 3, that matches the line with numeric groups that all parse; a
\* pattern that matches with a group that does not parse is passed over; when
\* no pattern qualifies the result is None.
C8_FirstQualifyingPattern ==
  ppc = "return" =>
    LET Q == {i \in 1..Len(patterns) : Qualifies(i, line)}
    IN  IF Q = {} THEN parsed = <<>>
        ELSE LET first == CHOOSE i \in Q : \A j \in Q : i <= j
             IN  parsed = FromMatch(first, line, Search(patterns[first], line))

\* pattern 1 matches with a group that does not parse and the record comes
\* from pattern 3
C8_Witness ==
  /\ ppc = "return" /\ parsed # <<>>
  /\ Search(patterns[1], line).ok /\ ~Qualifies(1, line)
  /\ ~Qualifies(2, line) /\ Qualifies(3, line)

\* a line that opens a record
IsRecordStart(l) == Strip(l) # <<>> /\ ParseTestLine(l) # <<>>
\* record r is the record parsed from line l, its unit possibly filled in later
ParsedFrom(r, l) ==
  LET p == ParseTestLine(l)[1]
  IN  /\ [r EXCEPT !.test_unit = p.test_unit] = p
      /\ (p.test_unit # <<>> => r.test_unit = p.test_unit)

\* C2: the list returned by _extract_lab_tests has one record per record-start
\* line of the text, and its i-th record is the one parsed from the i-th
\* record-start line.
C2_OneRecordPerStartInOrder ==
  pc = "done" =>
    LET starts == SelectSeq(lines, IsRecordStart)
    IN  /\ Len(lab_tests) = Len(starts)
        /\ \A i \in 1..Len(starts) : ParsedFrom(lab_tests[i], starts[i])

\* three record-start lines returned as three records in input order
C2_Witness ==
  /\ pc = "done"
  /\ lines = <<LineB, LineA, LineB>>
  /\ Len(lab_tests) = 3
  /\ lab_tests[1] = lab_tests[3] /\ lab_tests[1] # lab_tests[2]

\* the records opened so far: the sealed ones, then the open one
Opened == IF pc = "done" THEN lab_tests ELSE lab_tests \o current_test

\* C3: the unit of a record changes only from empty to non-empty; once it is
\* non-empty no later line changes it.
C3_UnitWrittenOnce ==
  [][pc = "loop" =>
       \A k \in 1..Len(Opened) :
         Opened'[k].test_unit # Opened[k].test_unit =>
           (Opened[k].test_unit = <<>> /\ Opened'[k].test_unit # <<>>)]_vars

\* a second unit-shaped continuation line was processed and the unit filled
\* in by the first one is still there
C3_Witness ==
  /\ pc = "loop" /\ idx = 4
  /\ lines = <<LineC, LineUnit, LineUnit2>>
  /\ current_test # <<>> /\ current_test[1].test_unit = LineUnit

\* the text without its blank lines
WithoutBlanks(t) == Join(SelectSeq(SplitLines(t), LAMBDA l : Strip(l) # <<>>))

\* C4: a blank line changes neither the open record nor the output list, and
\* the list returned for a text is the list returned for the text without its
\* blank lines.
C4_BlankLinesNoOp ==
  [][/\ (pc = "loop" /\ idx <= Len(lines) /\ Strip(lines[idx]) = <<>>) =>
          (current_test' = current_test /\ lab_tests' = lab_tests)
     /\ pc' = "done" => lab_tests' = ExtractLabTests(WithoutBlanks(text))]_vars

\* a blank line between a record and its unit line: the unit is still filled
C4_Witness ==
  /\ pc = "done"
  /\ lines = <<LineC, <<" ">>, LineUnit>>
  /\ Len(lab_tests) = 1 /\ lab_tests[1].test_unit = LineUnit

\* C9: after any prefix of the lines, the output list holds the records of
\* all record-start lines seen so far but the last, which is the open record;
\* no record is open exactly when no record-start line was seen; at the end
\* every opened record is in the output list.
C9_SealingDiscipline ==
  LET seen == SubSeq(lines, 1, idx - 1)
      starts == SelectSeq(seen, IsRecordStart)
      n == Len(starts)
  IN  /\ pc = "loop" =>
           /\ (current_test = <<>>) <=> (n = 0)
           /\ Len(lab_tests) = (IF n = 0 THEN 0 ELSE n - 1)
           /\ \A i \in 1..Len(lab_tests) : ParsedFrom(lab_tests[i], starts[i])
           /\ n > 0 => ParsedFrom(current_test[1], starts[n])
      /\ pc = "done" => Len(lab_tests) = n

\* two record-start lines processed: the first sealed, the second still open
C9_Witness ==
  /\ pc = "loop" /\ idx = 3
  /\ IsRecordStart(lines[1]) /\ IsRecordStart(lines[2])
  /\ Len(lab_tests) = 1 /\ current_test # <<>>
  /\ current_test[1] # lab_tests[1]

\* C10: a line that is not a record start leaves the output list alone and
\* changes at most test_unit of the open record; with no record open it
\* changes nothing.
C10_ContinuationFrame ==
  [][(pc = "loop" /\ idx <= Len(lines) /\ ~IsRecordStart(lines[idx])) =>
       /\ lab_tests' = lab_tests
       /\ (current_test = <<>>) => (current_test' = <<>>)
       /\ (current_test # <<>>) =>
            /\ current_test' # <<>>
            /\ [current_test'[1] EXCEPT !.test_unit = current_test[1].test_unit]
                 = current_test[1]]_vars

\* a continuation line has filled in the unit of the open record, after an
\* earlier line was ignored with no record open
C10_Witness ==
  /\ pc = "loop" /\ idx = 4
  /\ lines = <<LineUnit, LineC, LineUnit2>>
  /\ lab_tests = <<>>
  /\ current_test # <<>> /\ current_test[1].test_unit = <<"%">>

\* C5: every request is answered by the handler itself: with
\* {"is_success": true, "data": ...} exactly when process_report was called
\* and returned, otherwise with {"is_success": false, "error": ...}; and the
\* service keeps serving.
C5_FailuresAnsweredInBand ==
  /\ requests # <<>> => phase = "serving"
  /\ \A i \in 1..Len(requests) :
       LET q == requests[i]
       IN  /\ q.outcome = "returned"
           /\ Len(q.response) = 1
           /\ IF q.called /\ q.raised = <<>>
                THEN /\ DOMAIN q.response[1] = {"is_success", "data"}
                     /\ q.response[1].is_success
                ELSE /\ DOMAIN q.response[1] = {"is_success", "error"}
                     /\ ~q.response[1].is_success

\* a request that failed at image decoding, then one that succeeded
C5_Witness ==
  /\ Len(requests) >= 2
  /\ requests[1].failed_at = "open" /\ ~requests[1].response[1].is_success
  /\ requests[2].failed_at = "none" /\ requests[2].response[1].is_success

\* C6: a request is handled only after the OCR engine check succeeded; when
\* the check fails the service never serves.
C6_NoRequestWithoutEngine ==
  /\ (phase = "serving" \/ requests # <<>>) => engine = "available"
  /\ (engine = "unavailable" /\ phase # "starting") => phase = "failed"

\* the engine check failed and the service is down, no request handled
C6_Witness == engine = "unavailable" /\ phase = "failed" /\ requests = <<>>

====
